---- MODULE Spec2Model ----
(***************************************************************************)
(* A model of the bad-server back office: the order controller             *)
(* (backend/src/controllers/order.ts) and the customers controller.        *)
(*                                                                         *)
(* Strings the code inspects character by character (phones, search        *)
(* terms, titles) are sequences of one-character strings.  Error messages  *)
(* are short ASCII labels standing for the Russian texts of the source.    *)
(* Identifiers are well-formed: the request validators ahead of the        *)
(* controllers are not part of these files.                                *)
(***************************************************************************)
EXTENDS Integers, Sequences, FiniteSets, TLC

VARIABLES
    products,   \* the catalog: product id -> [title, price]
    orders,     \* the orders collection, in insertion order
    tz,         \* the server process's offset from UTC, in milliseconds
    pending,    \* a createOrder call suspended at its first await
    resp        \* what the last finished handler did with res / next

vars == <<products, orders, tz, pending, resp>>

(***************************************************************************)
(* Bounds of the model.                                                    *)
(***************************************************************************)
MaxItems == 2
MaxOrders == 1

(***************************************************************************)
(* Program constants.                                                      *)
(***************************************************************************)
MAX_ITEMS == 50
PHONE_MAX_LEN == 20
PHONE_MIN_DIGITS == 10
PHONE_MAX_DIGITS == 15
\* product.price === null
NULL == -1
\* setHours(23, 59, 59, 999): a day has this many milliseconds
MsPerDay == 86400000
MsPerHour == 3600000

\* times are milliseconds since the start of day 0, in UTC
DayStart(d) == d * MsPerDay
Noon(d) == DayStart(d) + 12 * MsPerHour

(***************************************************************************)
(* Small helpers over sequences.                                           *)
(***************************************************************************)
Rep(c, n) == [i \in 1..n |-> c]

Range(s) == {s[i] : i \in 1..Len(s)}

RECURSIVE SumSeq(_)
SumSeq(s) == IF s = <<>> THEN 0 ELSE Head(s) + SumSeq(Tail(s))

Last(s) == s[Len(s)]

(***************************************************************************)
(* The data the handlers run against.                                      *)
(***************************************************************************)
ProductIds == {"p1", "p2", "p3"}
UnknownId == "px"
ItemIds == ProductIds \cup {UnknownId}
ProductOrder == <<"p1", "p2", "p3">>
Users == {"u1", "u2"}

Catalog ==
    [p \in ProductIds |->
        CASE p = "p1" -> [title |-> <<"a", "X", "b", "Y", "Y", "c">>, price |-> 10]
          [] p = "p2" -> [title |-> <<"a", ".", "b", "*", "c">>, price |-> 25]
          [] OTHER    -> [title |-> <<"+", "1">>, price |-> NULL]]

(***************************************************************************)
(* Errors and the two ways a handler answers.                              *)
(***************************************************************************)
BadRequestError(msg) == [kind |-> "BadRequest", msg |-> msg]
NotFoundError(msg) == [kind |-> "NotFound", msg |-> msg]
ValidationError(msg) == [kind |-> "ValidationError", msg |-> msg]
CastError(msg) == [kind |-> "CastError", msg |-> msg]

NoError == [kind |-> "none", msg |-> ""]

CallNext(err) == [fn |-> "next", status |-> 0, err |-> err]
CallJson(status) == [fn |-> "json", status |-> status, err |-> NoError]

Idle == [stage |-> "idle"]
NoResp == [op |-> "none"]

(***************************************************************************)
(* String.prototype.trim and the phone pattern /^\+?\d{10,15}$/.           *)
(***************************************************************************)
Digits == {"0", "1", "2", "3", "4", "5", "6", "7", "8", "9"}
IsSpace(c) == c = " "

RECURSIVE TrimLeft(_)
TrimLeft(s) ==
    IF s # <<>> /\ IsSpace(Head(s)) THEN TrimLeft(Tail(s)) ELSE s

RECURSIVE TrimRight(_)
TrimRight(s) ==
    IF s # <<>> /\ IsSpace(s[Len(s)])
    THEN TrimRight(SubSeq(s, 1, Len(s) - 1))
    ELSE s

trim(s) == TrimRight(TrimLeft(s))

phoneTest(s) ==
    LET body == IF s # <<>> /\ Head(s) = "+" THEN Tail(s) ELSE s
    IN  /\ Len(body) >= PHONE_MIN_DIGITS
        /\ Len(body) <= PHONE_MAX_DIGITS
        /\ \A i \in 1..Len(body) : body[i] \in Digits

(***************************************************************************)
(* createOrder, up to its first await: the checks of items and phone.      *)
(* The result is the error handed to next, or NoError.                     *)
(***************************************************************************)
createOrderChecks(body) ==
    IF ~body.items.isArray
    THEN BadRequestError("items must be an array")
    ELSE IF Len(body.items.ids) = 0 \/ Len(body.items.ids) > MAX_ITEMS
    THEN BadRequestError("bad number of items")
    ELSE IF ~body.phone.isString
    THEN BadRequestError("phone must be a string")
    ELSE IF Len(trim(body.phone.chars)) > PHONE_MAX_LEN
    THEN BadRequestError("phone too long")
    ELSE IF ~phoneTest(trim(body.phone.chars))
    THEN BadRequestError("bad phone")
    ELSE NoError

(***************************************************************************)
(* Product.find({ _id: { $in: items } }): every catalog document whose id  *)
(* is among the items, once each, in collection order.                     *)
(***************************************************************************)
ProductDoc(cat, p) == [_id |-> p, title |-> cat[p].title, price |-> cat[p].price]

ProductFind(cat, ids) ==
    LET hit == SelectSeq(ProductOrder, LAMBDA p : p \in Range(ids))
    IN  [i \in 1..Len(hit) |-> ProductDoc(cat, hit[i])]

(***************************************************************************)
(* createOrder after Product.find resolved.  The result is                 *)
(* [err, total]: the error thrown or handed to next (NoError when the      *)
(* basket is accepted) and the recomputed totalBasket.                     *)
(***************************************************************************)
lengthMismatch(found, ids) == Len(found) # Len(ids)

FindIn(found, id) ==
    LET hit == SelectSeq(found, LAMBDA p : p._id = id)
    IN  IF hit = <<>> THEN [_id |-> "", title |-> <<>>, price |-> NULL] ELSE Head(hit)

Has(found, id) == \E i \in 1..Len(found) : found[i]._id = id

\* the loop without its check of product.price === null
RECURSIVE basketErrorNoPriceCheck(_, _)
basketErrorNoPriceCheck(found, ids) ==
    IF ids = <<>> THEN NoError
    ELSE IF ~Has(found, Head(ids))
    THEN BadRequestError("product not found by id")
    ELSE basketErrorNoPriceCheck(found, Tail(ids))

\* items.forEach(...): the first entry that throws ends the loop.
RECURSIVE basketError(_, _)
basketError(found, ids) ==
    IF ids = <<>> THEN NoError
    ELSE IF ~Has(found, Head(ids))
    THEN BadRequestError("product not found by id")
    ELSE IF FindIn(found, Head(ids)).price = NULL
    THEN BadRequestError("product not for sale")
    ELSE basketError(found, Tail(ids))

\* basket.reduce((a, c) => a + c.price, 0); in a sum null counts as 0
asNumber(price) == IF price = NULL THEN 0 ELSE price

basketPrices(found, ids) ==
    [i \in 1..Len(ids) |-> asNumber(FindIn(found, ids[i]).price)]

totalBasket(found, ids) == SumSeq(basketPrices(found, ids))

\* the handler without its comparison of totalBasket and total
totalMismatchNever(found, body) == FALSE

\* a comparison that only rejects a total below the basket
totalMismatchBelow(found, body) == totalBasket(found, body.items.ids) > body.total

totalMismatch(found, body) == totalBasket(found, body.items.ids) # body.total

createOrderBasket(found, body) ==
    IF lengthMismatch(found, body.items.ids)
    THEN BadRequestError("product not found")
    ELSE IF basketError(found, body.items.ids) # NoError
    THEN basketError(found, body.items.ids)
    ELSE IF totalMismatch(found, body)
    THEN BadRequestError("wrong order total")
    ELSE NoError

\* new Order({ totalAmount: total, products: items, phone: normalizedPhone, customer: userId, ... })
newOrder(userId, body, n) ==
    [_id |-> n, orderNumber |-> n, status |-> "created",
     totalAmount |-> body.total, products |-> body.items.ids,
     phone |-> trim(body.phone.chars), customer |-> userId,
     deliveryAddress |-> body.address, createdAt |-> Noon(1)]

\* the catch block of createOrder
createOrderCatch(err) ==
    IF err.kind = "ValidationError" THEN BadRequestError(err.msg) ELSE err

\* populateOrder.save() validates the document and writes it only when valid
saveWritesAlways(body) == TRUE

saveWrites(body) == body.storeValid

(***************************************************************************)
(* The requests the model sends to createOrder.                            *)
(***************************************************************************)
ItemLists ==
    UNION {[1..n -> ItemIds] : n \in 0..MaxItems} \cup {Rep("p1", MAX_ITEMS + 1)}

ItemsValues ==
    {[isArray |-> TRUE, ids |-> l] : l \in ItemLists}
        \cup {[isArray |-> FALSE, ids |-> <<>>]}

ValidPhone == [isString |-> TRUE, chars |-> <<" ", "+">> \o Rep("1", 10) \o <<" ">>]

InvalidPhones ==
    { [isString |-> FALSE, chars |-> <<>>],
      [isString |-> TRUE, chars |-> <<"1", "2", "3">>],
      [isString |-> TRUE, chars |-> Rep("1", 21)] }

Totals == {0, 10, 20, 34, 35}

\* Every basket and total with a phone that passes, and one good basket with
\* each phone that does not.
Address == <<"a", ".", "b">>

OrderBodies ==
    [items : ItemsValues, phone : {ValidPhone}, total : Totals,
     address : {Address}, storeValid : BOOLEAN]
        \cup [items : {[isArray |-> TRUE, ids |-> <<"p1", "p2">>]},
              phone : InvalidPhones, total : {35},
              address : {Address}, storeValid : {TRUE}]

(***************************************************************************)
(* createOrder: from the call to the await of Product.find.                *)
(***************************************************************************)
CreateOrderLookup ==
    /\ resp = NoResp
    /\ pending = Idle
    /\ \E userId \in Users, body \in OrderBodies :
        LET err == createOrderChecks(body)
        IN  IF err # NoError
            THEN /\ resp' = [op |-> "createOrder", userId |-> userId, body |-> body,
                             found |-> <<>>, calls |-> <<CallNext(err)>>,
                             sent |-> <<>>]
                 /\ pending' = pending
            ELSE /\ pending' = [stage |-> "found", userId |-> userId, body |-> body,
                                found |-> ProductFind(products, body.items.ids)]
                 /\ resp' = NoResp
    /\ UNCHANGED <<products, orders, tz>>

(***************************************************************************)
(* createOrder: from Product.find's result to the answer.                  *)
(***************************************************************************)
CreateOrderPersist ==
    /\ resp = NoResp
    /\ pending # Idle
    /\ LET body == pending.body
           err == createOrderBasket(pending.found, body)
           doc == newOrder(pending.userId, body, Len(orders) + 1)
           answer(calls, sent) ==
               [op |-> "createOrder", userId |-> pending.userId, body |-> body,
                found |-> pending.found, calls |-> calls, sent |-> sent]
       IN  IF err # NoError
           THEN /\ resp' = answer(<<CallNext(createOrderCatch(err))>>, <<>>)
                /\ orders' = orders
           ELSE /\ Len(orders) < MaxOrders
                /\ orders' = IF saveWrites(body) THEN Append(orders, doc) ELSE orders
                /\ resp' = IF body.storeValid
                           THEN answer(<<CallJson(200)>>, <<doc>>)
                           ELSE answer(<<CallNext(createOrderCatch(
                                    ValidationError("order validation failed")))>>, <<>>)
    /\ pending' = Idle
    /\ UNCHANGED <<products, tz>>

(***************************************************************************)
(* getOrderCurrentUserByNumber.  The route parameter is a string; a        *)
(* parameter that is no number fails the cast of orderNumber.              *)
(***************************************************************************)
OrderNumberParams ==
    {[numeric |-> TRUE, n |-> k] : k \in 1..(MaxOrders + 1)}
        \cup {[numeric |-> FALSE, n |-> 0]}

\* Order.findOne({ orderNumber }): the first order with that number, if any
findOne(n) == SelectSeq(orders, LAMBDA o : o.orderNumber = n)

\* the catch block of getOrderCurrentUserByNumber
orderByNumberCatch(err) ==
    IF err.kind = "CastError" THEN BadRequestError("invalid order id") ELSE err

isOwnerAlways(order, userId) == TRUE

\* order.customer._id.equals(userId)
isOwner(order, userId) == order.customer = userId

getOrderCurrentUserByNumber(userId, param) ==
    LET answer(calls, sent) ==
            [op |-> "getOrderCurrentUserByNumber", userId |-> userId,
             param |-> param, calls |-> calls, sent |-> sent]
        notFound == NotFoundError("order not found")
    IN  IF ~param.numeric
        THEN answer(<<CallNext(orderByNumberCatch(CastError("orderNumber")))>>, <<>>)
        ELSE IF findOne(param.n) = <<>>
        THEN answer(<<CallNext(orderByNumberCatch(notFound))>>, <<>>)
        ELSE IF ~isOwner(Head(findOne(param.n)), userId)
        THEN answer(<<CallNext(notFound)>>, <<>>)
        ELSE answer(<<CallJson(200)>>, <<Head(findOne(param.n))>>)

GetOrderCurrentUserByNumber ==
    /\ resp = NoResp
    /\ \E userId \in Users, param \in OrderNumberParams :
        resp' = getOrderCurrentUserByNumber(userId, param)
    /\ UNCHANGED <<products, orders, tz, pending>>

(***************************************************************************)
(* The answer leaves the server; the next handler writes a fresh one.      *)
(***************************************************************************)
Deliver ==
    /\ resp # NoResp
    /\ resp' = NoResp
    /\ UNCHANGED <<products, orders, tz, pending>>

(***************************************************************************)
(* Query values.  req.query holds strings (or arrays); a value the code    *)
(* passes to Number() is kept as what Number() makes of it, in halves:     *)
(* h = 2 * value, so 0.5 is h = 1.                                         *)
(***************************************************************************)
RawAbsent == [kind |-> "absent", h |-> 0]
RawText == [kind |-> "text", h |-> 0]
RawInfinity == [kind |-> "infinity", h |-> 0]
Halves(h) == [kind |-> "num", h |-> h]
Num(n) == Halves(2 * n)

\* Number.isFinite(Number(x))
isFinite(raw) == raw.kind = "num"

\* Math.floor of a number kept in halves
floor(h) == h \div 2

Min(a, b) == IF a < b THEN a ELSE b

\* Math.ceil(a / b) for b > 0; a division by 0 is not a number, sent as null
ceilDiv(a, b) == IF b = 0 THEN NULL ELSE (a + b - 1) \div b

MAX_LIMIT == 10
DEFAULT_LIMIT == 10
DEFAULT_PAGE == 1

\* const { page = 1, limit = 10 } = req.query
orDefault(raw, n) == IF raw.kind = "absent" THEN Num(n) ELSE raw

safePage(page) ==
    LET p == orDefault(page, DEFAULT_PAGE)
    IN  IF isFinite(p) /\ p.h > 0 THEN floor(p.h) ELSE 1

safeLimit(limit) ==
    LET l == orDefault(limit, DEFAULT_LIMIT)
    IN  IF isFinite(l) /\ l.h > 0 THEN Min(floor(l.h), MAX_LIMIT) ELSE 10

StrAbsent == [kind |-> "absent", s |-> ""]
StrArray == [kind |-> "array", s |-> ""]
Str(s) == [kind |-> "string", s |-> s]

orderSortFields == {"createdAt", "totalAmount", "orderNumber", "status"}
customerSortFields == {"createdAt", "totalAmount", "orderCount", "lastOrderDate", "name"}

\* a sort field taken from the query whenever it is a string
safeSortFieldAnyString(sortField, allowedSortFields) ==
    IF sortField.kind = "string" THEN sortField.s ELSE "createdAt"

safeSortField(sortField, allowedSortFields) ==
    IF sortField.kind = "string" /\ sortField.s \in allowedSortFields
    THEN sortField.s
    ELSE "createdAt"

safeSortOrder(sortOrder) ==
    IF sortOrder.kind = "string" /\ sortOrder.s \in {"asc", "desc"}
    THEN sortOrder.s
    ELSE "desc"

\* sort[safeSortField] = safeSortOrder === 'desc' ? -1 : 1
sortOf(field, order) == [field |-> field, dir |-> IF order = "desc" THEN -1 ELSE 1]

allowedStatuses == {"completed", "pending", "created", "cancelled"}

(***************************************************************************)
(* Dates.  new Date('YYYY-MM-DD') is the start of that day in UTC.         *)
(***************************************************************************)
DateAbsent == [kind |-> "absent", day |-> 0]
DateArray == [kind |-> "array", day |-> 0]
DateInvalid == [kind |-> "invalid", day |-> 0]
DateOnly(d) == [kind |-> "date", day |-> d]

newDate(raw) == DayStart(raw.day)

\* d.setHours(23, 59, 59, 999): the last millisecond of d's day on the
\* server's own clock, which runs offset ahead of UTC
setHoursEndOfDay(t, offset) ==
    LET local == t + offset
        dayStart == (local \div MsPerDay) * MsPerDay
    IN  dayStart + (MsPerDay - 1) - offset

(***************************************************************************)
(* Regular expressions: new RegExp(source, 'i') and its test, for sources  *)
(* made of plain characters, '.', '*', '+' and backslash escapes.          *)
(***************************************************************************)
Backslash == "\\"
MetaChars ==
    {".", "*", "+", "?", "^", "$", "{", "}", "(", ")", "|", "[", "]", Backslash}
Quantifiers == {"*", "+"}

\* s.replace(/[.*+?^${}()|[\]\\]/g, '\\$&')
RECURSIVE escapeRegex(_)
escapeRegex(s) ==
    IF s = <<>> THEN <<>>
    ELSE (IF Head(s) \in MetaChars THEN <<Backslash, Head(s)>> ELSE <<Head(s)>>)
            \o escapeRegex(Tail(s))

\* utils/escapeRegExp, imported by both controllers
escapeRegExp(s) == escapeRegex(s)

SyntaxError(msg) == [kind |-> "SyntaxError", msg |-> msg]

Atom(kind, ch, rest) ==
    IF rest # <<>> /\ Head(rest) \in Quantifiers
    THEN [tok |-> [kind |-> kind, ch |-> ch, many |-> TRUE,
                   min |-> IF Head(rest) = "*" THEN 0 ELSE 1],
          rest |-> Tail(rest)]
    ELSE [tok |-> [kind |-> kind, ch |-> ch, many |-> FALSE, min |-> 1],
          rest |-> rest]

\* the constructor: [ok, toks], ok = FALSE when it throws a SyntaxError
RECURSIVE RegExpParse(_, _)
RegExpParse(src, toks) ==
    IF src = <<>> THEN [ok |-> TRUE, toks |-> toks]
    ELSE IF Head(src) \in Quantifiers
    THEN [ok |-> FALSE, toks |-> <<>>]
    ELSE IF Head(src) = Backslash
    THEN IF Len(src) = 1
         THEN [ok |-> FALSE, toks |-> <<>>]
         ELSE LET a == Atom("lit", src[2], SubSeq(src, 3, Len(src)))
              IN  RegExpParse(a.rest, Append(toks, a.tok))
    ELSE LET a == Atom(IF Head(src) = "." THEN "any" ELSE "lit", Head(src), Tail(src))
         IN  RegExpParse(a.rest, Append(toks, a.tok))

RegExp(src) == RegExpParse(src, <<>>)

\* the 'i' flag
toLower(c) ==
    CASE c = "A" -> "a" [] c = "B" -> "b" [] c = "C" -> "c"
      [] c = "X" -> "x" [] c = "Y" -> "y" [] OTHER -> c

tokenMatches(tok, c) == tok.kind = "any" \/ toLower(tok.ch) = toLower(c)

RECURSIVE matchHere(_, _)
matchHere(toks, text) ==
    IF toks = <<>> THEN TRUE
    ELSE LET t == Head(toks)
             step == text # <<>> /\ tokenMatches(t, Head(text))
         IN  IF ~t.many
             THEN step /\ matchHere(Tail(toks), Tail(text))
             ELSE \/ t.min = 0 /\ matchHere(Tail(toks), text)
                  \/ step /\ matchHere(<<[t EXCEPT !.min = 0]>> \o Tail(toks), Tail(text))

\* regex.test(text): a match starting anywhere
regexTest(re, text) ==
    \E i \in 1..(Len(text) + 1) : matchHere(re.toks, SubSeq(text, i, Len(text)))

(***************************************************************************)
(* Number(s) of a search string, for strings of an optional sign and       *)
(* digits; every other string the model sends is not a number.             *)
(***************************************************************************)
NaN == [nan |-> TRUE, n |-> 0]

DigitValue(c) ==
    CASE c = "0" -> 0 [] c = "1" -> 1 [] c = "2" -> 2 [] c = "3" -> 3 [] c = "4" -> 4
      [] c = "5" -> 5 [] c = "6" -> 6 [] c = "7" -> 7 [] c = "8" -> 8 [] OTHER -> 9

RECURSIVE DigitsValue(_, _)
DigitsValue(s, acc) ==
    IF s = <<>> THEN acc ELSE DigitsValue(Tail(s), 10 * acc + DigitValue(Head(s)))

Number(chars) ==
    LET s == trim(chars)
        signed == s # <<>> /\ Head(s) \in {"+", "-"}
        body == IF signed THEN Tail(s) ELSE s
    IN  IF s = <<>> THEN [nan |-> FALSE, n |-> 0]
        ELSE IF body = <<>> \/ \E i \in 1..Len(body) : body[i] \notin Digits
        THEN NaN
        ELSE [nan |-> FALSE,
              n |-> IF Head(s) = "-" THEN 0 - DigitsValue(body, 0)
                    ELSE DigitsValue(body, 0)]

SearchAbsent == [kind |-> "absent", chars |-> <<>>]
SearchArray == [kind |-> "array", chars |-> <<>>]
SearchStr(chars) == [kind |-> "string", chars |-> chars]

MAX_SEARCH == 50

\* the search block both list handlers open with: [err, safeSearch]
safeSearchOf(search) ==
    IF search.kind = "absent" THEN [err |-> NoError, safeSearch |-> <<>>]
    ELSE IF search.kind # "string"
    THEN [err |-> BadRequestError("bad search"), safeSearch |-> <<>>]
    ELSE IF Len(trim(search.chars)) > MAX_SEARCH
    THEN [err |-> BadRequestError("search too long"), safeSearch |-> <<>>]
    ELSE [err |-> NoError, safeSearch |-> trim(search.chars)]

(***************************************************************************)
(* The users collection.  A user's order history and the figures derived   *)
(* from it are kept by the order model; here they follow from orders.      *)
(***************************************************************************)
UserOrder == <<"u1", "u2">>

UserInfo ==
    [u \in Users |->
        IF u = "u1"
        THEN [name |-> <<"a", "X", "b">>, createdAt |-> DayStart(2) - 2]
        ELSE [name |-> <<"a", ".", "b">>, createdAt |-> DayStart(2)]]

ordersOf(u) == SelectSeq(orders, LAMBDA o : o.customer = u)

UserDoc(u) ==
    LET mine == ordersOf(u)
    IN  [_id |-> u, name |-> UserInfo[u].name, createdAt |-> UserInfo[u].createdAt,
         orderCount |-> Len(mine),
         totalAmount |-> SumSeq([i \in 1..Len(mine) |-> mine[i].totalAmount]),
         lastOrder |-> IF mine = <<>> THEN NULL ELSE Last(mine)._id,
         lastOrderDate |-> IF mine = <<>> THEN NULL ELSE Last(mine).createdAt]

(***************************************************************************)
(* $sort, $skip, $limit.  Documents with equal keys keep the order they    *)
(* arrive in.  The store refuses a negative skip, and a pipeline's $limit  *)
(* must be positive; a find with limit 0 has no limit.                     *)
(***************************************************************************)
StatusRank(st) ==
    CASE st = "cancelled" -> 1 [] st = "completed" -> 2
      [] st = "created" -> 3 [] OTHER -> 4

NameRank(name) == IF name = <<"a", ".", "b">> THEN 1 ELSE 2

Key(doc, field) ==
    CASE field = "createdAt" -> doc.createdAt
      [] field = "totalAmount" -> doc.totalAmount
      [] field = "orderNumber" -> doc.orderNumber
      [] field = "status" -> StatusRank(doc.status)
      [] field = "orderCount" -> doc.orderCount
      [] field = "lastOrderDate" -> doc.lastOrderDate
      [] OTHER -> NameRank(doc.name)

Before(a, b, sort) ==
    IF sort.dir = 1
    THEN Key(a, sort.field) < Key(b, sort.field)
    ELSE Key(a, sort.field) > Key(b, sort.field)

Front(s) == SubSeq(s, 1, Len(s) - 1)

RECURSIVE Insert(_, _, _)
Insert(s, x, sort) ==
    IF s = <<>> THEN <<x>>
    ELSE IF Before(x, Last(s), sort)
    THEN Append(Insert(Front(s), x, sort), Last(s))
    ELSE Append(s, x)

RECURSIVE Sort(_, _)
Sort(s, sort) ==
    IF s = <<>> THEN <<>> ELSE Insert(Sort(Front(s), sort), Last(s), sort)

Skip(s, n) == SubSeq(s, n + 1, Len(s))
Limit(s, n) == SubSeq(s, 1, Min(n, Len(s)))

MongoServerError(msg) == [kind |-> "MongoServerError", msg |-> msg]

skipError(skip) ==
    IF skip < 0 THEN MongoServerError("skip must not be negative") ELSE NoError

limitError(limit) ==
    IF limit <= 0 THEN MongoServerError("the limit must be positive") ELSE NoError

(***************************************************************************)
(* getOrders: the filters, the shared pipeline, its two branches.          *)
(***************************************************************************)
ordersQueryError(q) ==
    IF safeSearchOf(q.search).err # NoError THEN safeSearchOf(q.search).err
    ELSE IF q.status.kind = "array" THEN BadRequestError("bad status")
    ELSE IF q.status.kind = "string" /\ q.status.s \notin allowedStatuses
    THEN BadRequestError("bad status")
    ELSE IF q.totalAmountFrom.kind # "absent" /\ ~isFinite(q.totalAmountFrom)
    THEN BadRequestError("bad totalAmountFrom")
    ELSE IF q.totalAmountTo.kind # "absent" /\ ~isFinite(q.totalAmountTo)
    THEN BadRequestError("bad totalAmountTo")
    ELSE IF q.orderDateFrom.kind \in {"array", "invalid"}
    THEN BadRequestError("bad orderDateFrom")
    ELSE IF q.orderDateTo.kind \in {"array", "invalid"}
    THEN BadRequestError("bad orderDateTo")
    ELSE NoError

\* const d = new Date(orderDateTo); filters.createdAt = { ..., $lte: d }
orderDateToBound(raw) == newDate(raw)

\* { $match: filters }
matchFilters(o, q) ==
    /\ q.status.kind = "absent" \/ o.status = q.status.s
    /\ q.totalAmountFrom.kind = "absent" \/ 2 * o.totalAmount >= q.totalAmountFrom.h
    /\ q.totalAmountTo.kind = "absent" \/ 2 * o.totalAmount <= q.totalAmountTo.h
    /\ q.orderDateFrom.kind = "absent" \/ o.createdAt >= newDate(q.orderDateFrom)
    /\ q.orderDateTo.kind = "absent" \/ o.createdAt <= orderDateToBound(q.orderDateTo)

\* the two $lookup stages: the catalog documents an order refers to, once
\* each in collection order, and its customer if the user exists
lookupProducts(o) == SelectSeq(ProductOrder, LAMBDA p : p \in Range(o.products))
lookupCustomer(o) == SelectSeq(UserOrder, LAMBDA u : u = o.customer)

\* the two $unwind stages: one row per (order, product)
rowsOf(o) ==
    IF lookupCustomer(o) = <<>> THEN <<>>
    ELSE [i \in 1..Len(lookupProducts(o)) |->
            [_id |-> o._id, orderNumber |-> o.orderNumber, status |-> o.status,
             totalAmount |-> o.totalAmount, createdAt |-> o.createdAt,
             customer |-> o.customer, products |-> lookupProducts(o)[i]]]

RECURSIVE unwind(_)
unwind(os) == IF os = <<>> THEN <<>> ELSE rowsOf(Head(os)) \o unwind(Tail(os))

\* { $match: { $or: [{ 'products.title': searchRegex }, { orderNumber: searchNumber }] } }
searchConditions(row, safeSearch) ==
    \/ regexTest(RegExp(escapeRegExp(safeSearch)), products[row.products].title)
    \/ ~Number(safeSearch).nan /\ row.orderNumber = Number(safeSearch).n

basePipeline(q) ==
    LET safeSearch == safeSearchOf(q.search).safeSearch
        rows == unwind(SelectSeq(orders, LAMBDA o : matchFilters(o, q)))
    IN  IF safeSearch = <<>> THEN rows
        ELSE SelectSeq(rows, LAMBDA r : searchConditions(r, safeSearch))

\* $group by _id: one document per order among the rows, in first-seen
\* order, with the products of its rows pushed in row order
RECURSIVE groupIds(_, _)
groupIds(rows, seen) ==
    IF rows = <<>> THEN seen
    ELSE groupIds(Tail(rows),
                  IF Head(rows)._id \in Range(seen) THEN seen
                  ELSE Append(seen, Head(rows)._id))

group(rows) ==
    LET ids == groupIds(rows, <<>>)
        of(id) == SelectSeq(rows, LAMBDA r : r._id = id)
    IN  [i \in 1..Len(ids) |->
            [Head(of(ids[i])) EXCEPT
                !.products = [k \in 1..Len(of(ids[i])) |-> of(ids[i])[k].products]]]

dataPipeline(q, sort, skip, limit) ==
    group(Limit(Skip(Sort(basePipeline(q), sort), skip), limit))

\* [{ $group: { _id: '$_id' } }, { $count: 'total' }], and ?? 0
countPipeline(q) == Len(groupIds(basePipeline(q), <<>>))

ListAnswer(op, userId, q, calls, store, data, pagination) ==
    [op |-> op, userId |-> userId, q |-> q, calls |-> calls, store |-> store,
     data |-> data, pagination |-> pagination]

getOrders(q) ==
    LET page == safePage(q.page)
        limit == safeLimit(q.limit)
        sort == sortOf(safeSortField(q.sortField, orderSortFields),
                       safeSortOrder(q.sortOrder))
        skip == (page - 1) * limit
        store == <<[sort |-> sort, skip |-> skip, limit |-> limit]>>
        fail(err, st) == ListAnswer("getOrders", "", q, <<CallNext(err)>>, st, <<>>, <<>>)
        totalOrders == countPipeline(q)
    IN  IF ordersQueryError(q) # NoError THEN fail(ordersQueryError(q), <<>>)
        ELSE IF skipError(skip) # NoError THEN fail(skipError(skip), store)
        ELSE IF limitError(limit) # NoError THEN fail(limitError(limit), store)
        ELSE ListAnswer("getOrders", "", q, <<CallJson(200)>>, store,
                        dataPipeline(q, sort, skip, limit),
                        <<[total |-> totalOrders,
                           totalPages |-> ceilDiv(totalOrders, limit),
                           currentPage |-> page, pageSize |-> limit]>>)

(***************************************************************************)
(* getCustomers.                                                           *)
(***************************************************************************)
badDate(raw) == raw.kind \in {"array", "invalid"}
badNumber(raw) == raw.kind # "absent" /\ ~isFinite(raw)

customersQueryError(q) ==
    IF safeSearchOf(q.search).err # NoError THEN safeSearchOf(q.search).err
    ELSE IF badDate(q.registrationDateFrom) THEN BadRequestError("bad registrationDateFrom")
    ELSE IF badDate(q.registrationDateTo) THEN BadRequestError("bad registrationDateTo")
    ELSE IF badDate(q.lastOrderDateFrom) THEN BadRequestError("bad lastOrderDateFrom")
    ELSE IF badDate(q.lastOrderDateTo) THEN BadRequestError("bad lastOrderDateTo")
    ELSE IF badNumber(q.totalAmountFrom) THEN BadRequestError("bad totalAmountFrom")
    ELSE IF badNumber(q.totalAmountTo) THEN BadRequestError("bad totalAmountTo")
    ELSE IF badNumber(q.orderCountFrom) THEN BadRequestError("bad orderCountFrom")
    ELSE IF badNumber(q.orderCountTo) THEN BadRequestError("bad orderCountTo")
    ELSE NoError

\* const endOfDay = new Date(x); endOfDay.setHours(23, 59, 59, 999)
endOfDay(raw) == setHoursEndOfDay(newDate(raw), tz)

\* a range condition never matches a null field
gte(x, bound) == x # NULL /\ x >= bound
lte(x, bound) == x # NULL /\ x <= bound

\* Order.find({ deliveryAddress: searchRegex }, '_id').limit(50)
ADDRESS_MATCH_LIMIT == 50

orderIdsByAddress(safeSearch) ==
    LET hit == SelectSeq(orders, LAMBDA o :
                   regexTest(RegExp(escapeRegExp(safeSearch)), o.deliveryAddress))
        top == Limit(hit, ADDRESS_MATCH_LIMIT)
    IN  {top[i]._id : i \in 1..Len(top)}

customerMatches(u, q) ==
    LET safeSearch == safeSearchOf(q.search).safeSearch
    IN  /\ q.registrationDateFrom.kind = "absent"
            \/ gte(u.createdAt, newDate(q.registrationDateFrom))
        /\ q.registrationDateTo.kind = "absent"
            \/ lte(u.createdAt, endOfDay(q.registrationDateTo))
        /\ q.lastOrderDateFrom.kind = "absent"
            \/ gte(u.lastOrderDate, newDate(q.lastOrderDateFrom))
        /\ q.lastOrderDateTo.kind = "absent"
            \/ lte(u.lastOrderDate, endOfDay(q.lastOrderDateTo))
        /\ q.totalAmountFrom.kind = "absent" \/ 2 * u.totalAmount >= q.totalAmountFrom.h
        /\ q.totalAmountTo.kind = "absent" \/ 2 * u.totalAmount <= q.totalAmountTo.h
        /\ q.orderCountFrom.kind = "absent" \/ 2 * u.orderCount >= q.orderCountFrom.h
        /\ q.orderCountTo.kind = "absent" \/ 2 * u.orderCount <= q.orderCountTo.h
        /\ safeSearch = <<>>
            \/ regexTest(RegExp(escapeRegExp(safeSearch)), u.name)
            \/ u.lastOrder \in orderIdsByAddress(safeSearch)

\* User.find(filters) and User.countDocuments(filters)
usersMatching(q) ==
    SelectSeq([i \in 1..Len(UserOrder) |-> UserDoc(UserOrder[i])],
              LAMBDA u : customerMatches(u, q))

\* User.find(filters, null, { sort, skip, limit })
findUsers(q, sort, skip, limit) ==
    LET sorted == Skip(Sort(usersMatching(q), sort), skip)
    IN  IF limit = 0 THEN sorted ELSE Limit(sorted, limit)

getCustomers(q) ==
    LET page == safePage(q.page)
        limit == safeLimit(q.limit)
        sort == sortOf(safeSortField(q.sortField, customerSortFields),
                       safeSortOrder(q.sortOrder))
        skip == (page - 1) * limit
        store == <<[sort |-> sort, skip |-> skip, limit |-> limit]>>
        fail(err, st) == ListAnswer("getCustomers", "", q, <<CallNext(err)>>, st, <<>>, <<>>)
        totalUsers == Len(usersMatching(q))
    IN  IF customersQueryError(q) # NoError THEN fail(customersQueryError(q), <<>>)
        ELSE IF skipError(skip) # NoError THEN fail(skipError(skip), store)
        ELSE ListAnswer("getCustomers", "", q, <<CallJson(200)>>, store,
                        findUsers(q, sort, skip, limit),
                        <<[total |-> totalUsers,
                           totalPages |-> ceilDiv(totalUsers, limit),
                           currentPage |-> page, pageSize |-> limit]>>)

(***************************************************************************)
(* getOrdersCurrentUser.  page and limit go through Number() alone; the    *)
(* model sends whole positive numbers or nothing.                          *)
(***************************************************************************)
MY_DEFAULT_LIMIT == 5

\* Product.find({ title: searchRegex })
productIdsByTitle(re) == {p \in ProductIds : regexTest(re, products[p].title)}

myOrderMatches(order, productIds, searchNumber) ==
    \/ ~searchNumber.nan /\ order.orderNumber = searchNumber.n
    \/ \E i \in 1..Len(order.products) : order.products[i] \in productIds

\* orders.slice(skip, skip + limit)
slice(s, from, to) == SubSeq(s, from + 1, Min(to, Len(s)))

getOrdersCurrentUser(userId, q) ==
    LET page == floor(orDefault(q.page, DEFAULT_PAGE).h)
        limit == floor(orDefault(q.limit, MY_DEFAULT_LIMIT).h)
        skip == (page - 1) * limit
        mine == ordersOf(userId)
        searching == q.search.kind = "string" /\ q.search.chars # <<>>
        searchRegex == RegExp(q.search.chars)
        found == IF ~searching THEN mine
                 ELSE SelectSeq(mine, LAMBDA o :
                          myOrderMatches(o, productIdsByTitle(searchRegex),
                                         Number(q.search.chars)))
    IN  IF searching /\ ~searchRegex.ok
        THEN ListAnswer("getOrdersCurrentUser", userId, q,
                        <<CallNext(SyntaxError("Invalid regular expression"))>>,
                        <<>>, <<>>, <<>>)
        ELSE ListAnswer("getOrdersCurrentUser", userId, q, <<CallJson(200)>>, <<>>,
                        slice(found, skip, skip + limit),
                        <<[total |-> Len(found),
                           totalPages |-> ceilDiv(Len(found), limit),
                           currentPage |-> page, pageSize |-> limit]>>)

(***************************************************************************)
(* The data sets and requests of the list handlers.                        *)
(***************************************************************************)
MaxListOrders == 2

\* orders as createOrder and updateOrder leave them, oldest first
OrderShapes ==
    << [customer |-> "u1", products |-> <<"p1", "p2">>, status |-> "created",
        createdAt |-> Noon(1), deliveryAddress |-> <<"a", ".", "b">>],
       [customer |-> "u2", products |-> <<"p2">>, status |-> "completed",
        createdAt |-> DayStart(2) - 2, deliveryAddress |-> <<"a", "X", "b">>],
       [customer |-> "u2", products |-> <<"p2", "p1">>, status |-> "created",
        createdAt |-> DayStart(2), deliveryAddress |-> <<"c">>],
       [customer |-> "u1", products |-> <<"p1">>, status |-> "pending",
        createdAt |-> Noon(2), deliveryAddress |-> <<"+", "1">>] >>

OrderFromShape(sh, n) ==
    [_id |-> n, orderNumber |-> n, status |-> sh.status,
     totalAmount |-> SumSeq([i \in 1..Len(sh.products) |-> Catalog[sh.products[i]].price]),
     products |-> sh.products, phone |-> trim(ValidPhone.chars),
     customer |-> sh.customer, deliveryAddress |-> sh.deliveryAddress,
     createdAt |-> sh.createdAt]

OrderDataSets ==
    { LET picked == SelectSeq([i \in 1..Len(OrderShapes) |-> i], LAMBDA i : i \in I)
      IN  [n \in 1..Len(picked) |-> OrderFromShape(OrderShapes[picked[n]], n)]
      : I \in {J \in SUBSET (1..Len(OrderShapes)) : Cardinality(J) <= MaxListOrders} }

TzOffsets == {0, 3 * MsPerHour, 0 - 5 * MsPerHour}

PageValues ==
    {RawAbsent, RawText, Num(0), Num(-1), Halves(1), Num(1), Num(2), Num(3)}
LimitValues ==
    {RawAbsent, RawText, RawInfinity, Num(0), Num(-1), Halves(1), Num(1), Num(2),
     Halves(5), Num(11)}
SearchValues ==
    { SearchAbsent, SearchArray,
      SearchStr(<<"a", ".", "b", "*", "c">>), SearchStr(<<"a", ".", "b">>),
      SearchStr(<<"+", "1">>), SearchStr(<<" ", "x", "B", " ">>),
      SearchStr(<<"2">>), SearchStr(<<" ">>), SearchStr(Rep("a", MAX_SEARCH + 1)) }
SortFieldValues ==
    {StrAbsent, StrArray, Str("totalAmount"), Str("orderNumber"), Str("status"),
     Str("orderCount"), Str("lastOrderDate"), Str("name"), Str("password")}
SortOrderValues == {StrAbsent, Str("asc"), Str("desc"), Str("up")}
StatusValues == {StrAbsent, StrArray, Str("created"), Str("deleted")}
AmountValues == {RawAbsent, RawText, Num(10), Num(25)}
CountValues == {RawAbsent, RawText, Num(1)}
DateValues == {DateAbsent, DateInvalid, DateOnly(1), DateOnly(2)}

OrdersQuery ==
    [page |-> RawAbsent, limit |-> RawAbsent, sortField |-> StrAbsent,
     sortOrder |-> StrAbsent, status |-> StrAbsent, totalAmountFrom |-> RawAbsent,
     totalAmountTo |-> RawAbsent, orderDateFrom |-> DateAbsent,
     orderDateTo |-> DateAbsent, search |-> SearchAbsent]

\* paging with each search; each sort; each combination of filters
OrderQueries ==
    {[OrdersQuery EXCEPT !.page = p, !.limit = l, !.search = s] :
        p \in PageValues, l \in LimitValues, s \in SearchValues}
    \cup {[OrdersQuery EXCEPT !.sortField = f, !.sortOrder = o, !.limit = l] :
        f \in SortFieldValues, o \in SortOrderValues, l \in {RawAbsent, Num(1)}}
    \cup {[OrdersQuery EXCEPT !.status = st, !.totalAmountFrom = a, !.totalAmountTo = b,
                              !.orderDateFrom = d, !.orderDateTo = e] :
        st \in StatusValues, a \in AmountValues, b \in AmountValues,
        d \in DateValues \cup {DateArray}, e \in DateValues \cup {DateArray}}

CustomersQuery ==
    [page |-> RawAbsent, limit |-> RawAbsent, sortField |-> StrAbsent,
     sortOrder |-> StrAbsent, registrationDateFrom |-> DateAbsent,
     registrationDateTo |-> DateAbsent, lastOrderDateFrom |-> DateAbsent,
     lastOrderDateTo |-> DateAbsent, totalAmountFrom |-> RawAbsent,
     totalAmountTo |-> RawAbsent, orderCountFrom |-> RawAbsent,
     orderCountTo |-> RawAbsent, search |-> SearchAbsent]

CustomerQueries ==
    {[CustomersQuery EXCEPT !.page = p, !.limit = l, !.search = s] :
        p \in PageValues, l \in LimitValues, s \in SearchValues}
    \cup {[CustomersQuery EXCEPT !.sortField = f, !.sortOrder = o, !.limit = l] :
        f \in SortFieldValues, o \in SortOrderValues, l \in {RawAbsent, Num(1)}}
    \cup {[CustomersQuery EXCEPT !.registrationDateFrom = d, !.registrationDateTo = e,
                                 !.lastOrderDateFrom = f, !.lastOrderDateTo = g] :
        d \in DateValues, e \in DateValues \cup {DateArray}, f \in DateValues,
        g \in DateValues}
    \cup {[CustomersQuery EXCEPT !.totalAmountFrom = a, !.totalAmountTo = b,
                                 !.orderCountFrom = c, !.orderCountTo = d] :
        a \in AmountValues, b \in AmountValues, c \in CountValues, d \in CountValues}

MyOrderQueries ==
    [search : SearchValues \ {SearchArray}, page : {RawAbsent, Num(1), Num(2)},
     limit : {RawAbsent, Num(1), Num(2)}]

GetOrders ==
    /\ resp = NoResp
    /\ \E q \in OrderQueries : resp' = getOrders(q)
    /\ UNCHANGED <<products, orders, tz, pending>>

GetCustomers ==
    /\ resp = NoResp
    /\ \E q \in CustomerQueries : resp' = getCustomers(q)
    /\ UNCHANGED <<products, orders, tz, pending>>

GetOrdersCurrentUser ==
    /\ resp = NoResp
    /\ \E userId \in Users, q \in MyOrderQueries :
        resp' = getOrdersCurrentUser(userId, q)
    /\ UNCHANGED <<products, orders, tz, pending>>

InitList ==
    /\ products = Catalog
    /\ orders \in OrderDataSets
    /\ tz \in TzOffsets
    /\ pending = Idle
    /\ resp = NoResp

NextList ==
    \/ GetOrders
    \/ GetCustomers
    \/ GetOrdersCurrentUser
    \/ Deliver

SpecList == InitList /\ [][NextList]_vars


Init ==
    /\ products = Catalog
    /\ orders = <<>>
    /\ tz = 0
    /\ pending = Idle
    /\ resp = NoResp

Next ==
    \/ CreateOrderLookup
    \/ CreateOrderPersist
    \/ GetOrderCurrentUserByNumber
    \/ Deliver

Spec == Init /\ [][Next]_vars

(***************************************************************************)
(* The catalog changes under createOrder.  Products are written by the     *)
(* catalog's own handlers, outside the order controller; a write sets the  *)
(* price of one product and can land at any await of createOrder.          *)
(***************************************************************************)
PriceUpdates ==
    {[id |-> "p1", price |-> 10], [id |-> "p1", price |-> 20],
     [id |-> "p1", price |-> NULL]}

UpdateProductPrice ==
    /\ resp = NoResp
    /\ \E u \in PriceUpdates :
        /\ products[u.id].price # u.price
        /\ products' = [products EXCEPT ![u.id].price = u.price]
    /\ UNCHANGED <<orders, tz, pending, resp>>

NextRace ==
    \/ CreateOrderLookup
    \/ UpdateProductPrice
    \/ CreateOrderPersist
    \/ Deliver

SpecRace == Init /\ [][NextRace]_vars

(***************************************************************************)
(* Order creation: what the claims are stated over.                        *)
(***************************************************************************)
Created == resp.op = "createOrder"
Answered200 == resp.calls = <<CallJson(200)>>
FailedWith(kind) ==
    /\ Len(resp.calls) = 1
    /\ resp.calls[1].fn = "next"
    /\ resp.calls[1].err.kind = kind

\* the catalog price of every list entry, one term per entry
CatalogSum(ids) == SumSeq([i \in 1..Len(ids) |-> products[ids[i]].price])

Sellable(ids) ==
    \A i \in 1..Len(ids) : ids[i] \in ProductIds /\ products[ids[i]].price # NULL

HasDuplicate(ids) == \E i, j \in 1..Len(ids) : i # j /\ ids[i] = ids[j]

ExactTotal(body) ==
    /\ body.items.isArray
    /\ Sellable(body.items.ids)
    /\ CatalogSum(body.items.ids) = body.total

\* C1: createOrder persists an order only when the claimed total equals the
\* sum of the catalog prices of the items, one term per entry; any other
\* total is answered with BadRequest, and the persisted totalAmount is that sum.
C1_TotalIsRecomputed ==
    /\ Created =>
        /\ Answered200 =>
            /\ ExactTotal(resp.body)
            /\ Last(orders) = resp.sent[1]
            /\ Last(orders).totalAmount = CatalogSum(resp.body.items.ids)
        /\ ~ExactTotal(resp.body) => FailedWith("BadRequest")
    /\ \A i \in 1..Len(orders) :
        /\ Sellable(orders[i].products)
        /\ orders[i].totalAmount = CatalogSum(orders[i].products)

C1_Witness ==
    /\ Created
    /\ Answered200
    /\ resp.body.items.ids = <<"p1", "p2">>
    /\ resp.body.total = 35
    /\ Last(orders).totalAmount = 35

\* C2: a list that names the same sellable product more than once, with the
\* total counted once per occurrence, is persisted with the list unchanged.
C2_DuplicatesAccepted ==
    ( /\ Created
      /\ resp.body.items.isArray
      /\ Len(resp.body.items.ids) <= MAX_ITEMS
      /\ HasDuplicate(resp.body.items.ids)
      /\ ExactTotal(resp.body)
      /\ resp.body.phone = ValidPhone
      /\ resp.body.storeValid )
    => ( /\ Answered200
         /\ Last(orders).products = resp.body.items.ids )

\* C3: a request whose list names a product with a null price fails with
\* BadRequest and persists nothing, whatever total it claims.
C3_UnsellableRejected ==
    /\ ( /\ Created
         /\ resp.body.items.isArray
         /\ \E i \in 1..Len(resp.body.items.ids) :
               /\ resp.body.items.ids[i] \in ProductIds
               /\ products[resp.body.items.ids[i]].price = NULL )
       => ( /\ FailedWith("BadRequest")
            /\ resp.sent = <<>> )
    /\ \A i \in 1..Len(orders) : Sellable(orders[i].products)

C3_Witness ==
    /\ Created
    /\ resp.body.items.ids = <<"p1", "p3">>
    /\ resp.body.total = 10
    /\ resp.body.phone = ValidPhone
    /\ resp.body.storeValid
    /\ resp.calls = <<CallNext(BadRequestError("product not for sale"))>>
    /\ orders = <<>>

\* C4: every createOrder request ends in exactly one call, next(error) or a
\* 200 answer, and the orders collection changes only in a step that ends
\* in the 200 answer, by exactly the one new order.
C4_NoPartialWrite ==
    /\ [](Created =>
            /\ Len(resp.calls) = 1
            /\ \/ Answered200
               \/ resp.calls[1].fn = "next" /\ resp.calls[1].err # NoError)
    /\ [][orders' # orders =>
            /\ resp'.op = "createOrder"
            /\ resp'.calls = <<CallJson(200)>>
            /\ orders' = Append(orders, resp'.sent[1])]_vars

C4_Witness ==
    /\ Created
    /\ resp.body.items.ids = <<"p1", "p2">>
    /\ resp.body.total = 35
    /\ ~resp.body.storeValid
    /\ resp.calls = <<CallNext(BadRequestError("order validation failed"))>>
    /\ orders = <<>>

(***************************************************************************)
(* Reading one order as its customer.                                      *)
(***************************************************************************)
ReadOne == resp.op = "getOrderCurrentUserByNumber"

OrderNumbered(n) == \E i \in 1..Len(orders) : orders[i].orderNumber = n

OwnedByOther(n, userId) ==
    \E i \in 1..Len(orders) :
        orders[i].orderNumber = n /\ orders[i].customer # userId

Listed(op) == resp.op = op
PagedList == resp.op \in {"getOrders", "getCustomers"}
AnyList == resp.op \in {"getOrders", "getCustomers", "getOrdersCurrentUser"}

\* C5: whatever the raw limit, the page size the handler uses (the limit
\* given to the store and pagination.pageSize) is a whole number in 1..10.
C5_LimitInRange ==
    PagedList =>
        /\ \A i \in 1..Len(resp.store) : resp.store[i].limit \in 1..MAX_LIMIT
        /\ \A i \in 1..Len(resp.pagination) : resp.pagination[i].pageSize \in 1..MAX_LIMIT

\* C6: whatever the raw page, the page the handler uses is at least 1, so
\* the skip given to the store is never negative.
C6_SkipNotNegative ==
    PagedList =>
        /\ \A i \in 1..Len(resp.store) : resp.store[i].skip >= 0
        /\ \A i \in 1..Len(resp.pagination) : resp.pagination[i].currentPage >= 1

\* the orders seen when every page 1..totalPages is fetched with the
\* parameters of the answered request
PageIds(q, p) ==
    LET page == getOrders([q EXCEPT !.page = Num(p)]).data
    IN  {page[i]._id : i \in 1..Len(page)}

AllPagesIds(q, totalPages) == UNION {PageIds(q, p) : p \in 1..totalPages}

\* C7: totalOrders equals the number of distinct orders in the union of the
\* pages 1..totalPages fetched with the same parameters and data.
C7_CountMatchesPages ==
    (Listed("getOrders") /\ resp.calls = <<CallJson(200)>>) =>
        resp.pagination[1].total =
            Cardinality(AllPagesIds(resp.q, resp.pagination[1].totalPages))

\* a case-insensitive literal substring
containsLiteral(text, s) ==
    \E i \in 1..(Len(text) - Len(s) + 1) :
        \A k \in 1..Len(s) : toLower(text[i + k - 1]) = toLower(s[k])

numberMatches(n, s) == ~Number(s).nan /\ n = Number(s).n

LiteralOrderIds(os, s) ==
    { os[i]._id : i \in
        { j \in 1..Len(os) :
            \/ numberMatches(os[j].orderNumber, s)
            \/ \E k \in 1..Len(os[j].products) :
                  containsLiteral(products[os[j].products[k]].title, s) } }

LiteralAddressIds(s) ==
    {orders[i]._id : i \in {j \in 1..Len(orders) :
                                containsLiteral(orders[j].deliveryAddress, s)}}

LiteralCustomerIds(s) ==
    { u \in Users :
        \/ containsLiteral(UserDoc(u).name, s)
        \/ UserDoc(u).lastOrder \in LiteralAddressIds(s) }

\* the term as the handler uses it: trimmed by the two admin lists
UsedSearch ==
    IF Listed("getOrdersCurrentUser") THEN resp.q.search.chars
    ELSE trim(resp.q.search.chars)

LiteralTotal ==
    CASE Listed("getOrders") -> Cardinality(LiteralOrderIds(orders, UsedSearch))
      [] Listed("getCustomers") -> Cardinality(LiteralCustomerIds(UsedSearch))
      [] OTHER -> Cardinality(LiteralOrderIds(ordersOf(resp.userId), UsedSearch))

Searched ==
    /\ AnyList
    /\ resp.q.search.kind = "string"
    /\ UsedSearch # <<>>
    /\ Len(UsedSearch) <= MAX_SEARCH

\* C8: in the three handlers that take a search term, the term is matched
\* as a literal case-insensitive substring and never fails as a pattern.
C8_SearchIsLiteral ==
    Searched =>
        /\ \A i \in 1..Len(resp.calls) :
              resp.calls[i].fn = "next" => resp.calls[i].err.kind # "SyntaxError"
        /\ resp.calls = <<CallJson(200)>> => resp.pagination[1].total = LiteralTotal

\* the same statement for the two handlers that escape the term
C8_EscapedSearchIsLiteral == ~Listed("getOrdersCurrentUser") => C8_SearchIsLiteral

DuringDay(t, d) == t >= DayStart(d) /\ t < DayStart(d + 1)

\* C10: getOrders moves orderDateTo to the last instant of its day, so an
\* order created at any time of that day is in the result.
C10_OrderDateToCoversDay ==
    ( /\ Listed("getOrders")
      /\ resp.calls = <<CallJson(200)>>
      /\ resp.q.orderDateTo.kind = "date" )
    => \A i \in 1..Len(orders) :
          ( /\ matchFilters(orders[i], [resp.q EXCEPT !.orderDateTo = DateAbsent])
            /\ DuringDay(orders[i].createdAt, resp.q.orderDateTo.day) )
          => \E k \in 1..Len(resp.data) : resp.data[k]._id = orders[i]._id

\* the customers a getCustomers answer holds
CustomerIds == {resp.data[k]._id : k \in 1..Len(resp.data)}

\* every filter of the request but registrationDateTo lets the customer in
OtherFiltersPass(u) ==
    customerMatches(UserDoc(u), [resp.q EXCEPT !.registrationDateTo = DateAbsent])

RegisteredUpTo ==
    /\ Listed("getCustomers")
    /\ resp.calls = <<CallJson(200)>>
    /\ resp.q.registrationDateTo.kind = "date"
    /\ resp.q.page = RawAbsent
    /\ resp.q.limit = RawAbsent

\* C11: whatever the time-zone offset of the server process, getCustomers
\* with registrationDateTo = D returns the customers created during day D
\* (UTC), up to its last milliseconds, and none created on the next day.
C11_RegistrationDateToCoversDay ==
    RegisteredUpTo =>
        \A u \in Users :
            /\ ( /\ OtherFiltersPass(u)
                 /\ DuringDay(UserInfo[u].createdAt, resp.q.registrationDateTo.day) )
               => u \in CustomerIds
            /\ UserInfo[u].createdAt >= DayStart(resp.q.registrationDateTo.day + 1)
               => u \notin CustomerIds

\* the same statement for a server process that runs on UTC
C11_HoldsOnUtc == tz = 0 => C11_RegistrationDateToCoversDay

\* the allow-list of the resource the answered request was for
AllowList == IF Listed("getOrders") THEN orderSortFields ELSE customerSortFields

RawInAllowList ==
    resp.q.sortField.kind = "string" /\ resp.q.sortField.s \in AllowList

\* C12: the sort key that getOrders and getCustomers pass to the store is
\* always in the resource's allow-list, and is createdAt whenever the raw
\* sortField is absent, not a string, or a string outside the allow-list.
C12_SortFieldFromAllowList ==
    PagedList =>
        \A i \in 1..Len(resp.store) :
            /\ resp.store[i].sort.field \in AllowList
            /\ ~RawInAllowList => resp.store[i].sort.field = "createdAt"

\* a field name of another resource, and one of no resource, reached the
\* store as createdAt in both handlers' answers
C12_Witness ==
    /\ PagedList
    /\ resp.calls = <<CallJson(200)>>
    /\ resp.q.sortField \in {Str("password"), Str("orderCount"), Str("status"), StrArray}
    /\ ~RawInAllowList
    /\ Len(resp.store) = 1
    /\ resp.store[1].sort.field = "createdAt"
    /\ Len(orders) = MaxListOrders

\* the sum of the prices a product lookup returned, one term per item
LookupSum(found, ids) ==
    SumSeq([i \in 1..Len(ids) |->
        LET hit == {k \in 1..Len(found) : found[k]._id = ids[i]}
        IN  IF hit = {} THEN 0 ELSE found[CHOOSE k \in hit : TRUE].price])

\* C13: with price updates landing between createOrder's product lookup and
\* its insert, an order that is written has totalAmount equal to the sum of
\* its products' catalog prices at the moment of the write.
C13_TotalIsSumAtWrite ==
    [][orders' # orders =>
        Last(orders').totalAmount = CatalogSum(Last(orders').products)]_vars

\* C13, amended: an order that is written has totalAmount equal to the sum
\* of the prices its own product lookup returned, whatever the catalog holds
\* at the moment of the write.
C13_TotalIsSumAtLookup ==
    [][orders' # orders =>
        Last(orders').totalAmount = LookupSum(pending.found, Last(orders').products)]_vars

\* an order was written after the price of one of its products changed
\* between the lookup and the write
C13_Witness ==
    /\ Created
    /\ Answered200
    /\ orders # <<>>
    /\ Last(orders) = resp.sent[1]
    /\ \E i \in 1..Len(resp.found) :
          products[resp.found[i]._id].price # resp.found[i].price
    /\ resp.sent[1].totalAmount = LookupSum(resp.found, resp.body.items.ids)

\* the product rows of one order that the filter and search steps let through
SurvivingProducts(q, id) ==
    LET rows == SelectSeq(basePipeline(q), LAMBDA r : r._id = id)
    IN  [i \in 1..Len(rows) |-> rows[i].products]

\* C14: whatever the page, the limit and the number of products of an order,
\* an order in a getOrders data page is there once and carries every product
\* row of it that survived the filter and search steps.
C14_PageOrdersAreWhole ==
    (Listed("getOrders") /\ resp.calls = <<CallJson(200)>>) =>
        \A k \in 1..Len(resp.data) :
            /\ \A j \in 1..Len(resp.data) : resp.data[j]._id = resp.data[k]._id => j = k
            /\ Range(resp.data[k].products)
                   = Range(SurvivingProducts(resp.q, resp.data[k]._id))
            /\ Len(resp.data[k].products)
                   = Len(SurvivingProducts(resp.q, resp.data[k]._id))

\* the same statement for pages that no order's rows straddle: a limit that
\* is at least the number of rows
C14_HoldsWhenOnePageHoldsAll ==
    ( /\ Listed("getOrders")
      /\ resp.calls = <<CallJson(200)>>
      /\ resp.pagination[1].currentPage = 1
      /\ resp.pagination[1].pageSize >= Len(basePipeline(resp.q)) )
    => C14_PageOrdersAreWhole

====
